---- MODULE Spec2Model ----
(***************************************************************************)
(* The indexing supervisor of rindexer                                     *)
(* (rindexer_core/src/indexer/start.rs): start_indexing plans one unit per *)
(* (event, network contract), process_event_sequentially and               *)
(* process_event_concurrently cut the unit's span into windows, every      *)
(* window runs process_logs on a log stream under a permit of the global   *)
(* semaphore, handle_logs_result hands each batch to the callback registry *)
(* (awaited or detached) and update_progress_and_db spawns the progress    *)
(* write.                                                                  *)
(*                                                                         *)
(* Block numbers are U64 values; every block number of the model lies far  *)
(* below 2^64, the one subtraction that can leave the range                *)
(* (latest_block - reorg_safe_distance) is modelled with its panic.        *)
(***************************************************************************)
EXTENDS Integers, Sequences, FiniteSets, TLC

\* ---------------------------------------------------------------- bounds
\* number of (event, network contract) units of the registry
NumUnits == 2
\* the resolved end of a unit lies at most MaxSpan blocks above its start
MaxSpan == 2
\* largest max_block_range of an EventProcessingConfig
MaxBlockRange == 2
\* largest max_concurrency of the settings
MaxConcurrency == 2
\* number of blocks the chain head of a network grows while indexing runs
MaxHeadAdvance == 1
\* number of units of the registry without end_block (live units)
MaxLiveUnits == 1

\* ------------------------------------------------------ program constants
\* let start_block = U64::from("0x035b0fa7");
HardCodedStartBlock == 56299431
\* reorg_safe_distance_for_chain: Ethereum mainnet
MainnetChainId == 1
MainnetSafeDistance == 12
\* a chain the reorg policy does not know
UnknownChainId == 31337

Units == 1..NumUnits

\* Option<T> as a set with at most one element
None == {}
Some(x) == {x}
IsSome(o) == o # {}
Unwrap(o) == CHOOSE x \in o : TRUE
UnwrapOr(o, d) == IF o = {} THEN d ELSE Unwrap(o)

Min(a, b) == IF a < b THEN a ELSE b

\* names of the units, as the registry holds them
IndexerName(u) == "indexer"
ContractName(u) == <<"contract", u>>
EventName(u) == <<"event", u>>
NetworkName(u) == "network"
\* topic_id: the hex text of the event's topic hash, "0x" and the digits
TopicId(u) == <<"0x", u>>

\* the table and row of the SELECT of get_last_synced_block_number
ReadRow(u) == <<<<IndexerName(u), EventName(u)>>, NetworkName(u)>>
\* the table and row of the UPDATE of update_progress_and_db
WriteRow(u) == <<<<IndexerName(u), ContractName(u), EventName(u)>>, NetworkName(u)>>
Rows == {ReadRow(u) : u \in Units} \cup {WriteRow(u) : u \in Units}

\* reorg_safe_distance_for_chain
ReorgSafeDistanceForChain(chain_id) ==
    IF chain_id = MainnetChainId THEN MainnetSafeDistance ELSE 0

VARIABLES
    settings,      \* StartIndexingSettings: max_concurrency and the two order flags
    max_block_range, \* EventProcessingConfig.max_block_range
    contract,      \* contract[u]: the NetworkContract of unit u and its reorg flag
    head,          \* the latest block of the provider of the network
    head0,         \* head when start_indexing was called
    chain_logs,    \* the blocks of the chain that hold a log of the events
    store,         \* the progress store of the run: "up", or "flaky" (a query may fail)
    db,            \* db[row]: last_synced_block of a row of rindexer_internal (None: no row)
    sup,           \* start_indexing: its position and loop index
    config,        \* config[u]: the EventProcessingConfig built for unit u
    unit,          \* unit[u]: process_event_sequentially / _concurrently of unit u
    task,          \* task[u][w]: process_logs of window w of unit u and its stream
    permits,       \* available permits of the semaphore
    detached,      \* number of outstanding trigger_event calls of detached tasks
    writes         \* progress-write tasks spawned and not yet run

vars == <<settings, max_block_range, contract, head, head0, chain_logs, store, db, sup, config,
          unit, task, permits, detached, writes>>

\* ------------------------------------------------------------ the windows
\* (start..end).step_by(max_block_range): the number of steps
NumWindows(start, end, range) ==
    IF start >= end THEN 0 ELSE ((end - start) + (range - 1)) \div range

\* window k (from 1) of the loop: [current_block, min(current_block + range, end)]
WindowAt(start, end, range, k) ==
    LET current_block == start + (k - 1) * range
        next_block == Min(current_block + range, end)
    IN  [from |-> current_block, to |-> next_block]


\* ------------------------------------------------------------ build_filter
\* topic_id.parse::<H256>() and address.parse::<Address>(): the value of the digits
\* that follow "0x"
ParseH256(text) == text[2]
ParseAddress(text) == text[2]

\* Filter::new(): no address, no topics, no block range
FilterNew == [address |-> None, topic0 |-> None, topics |-> << >>, from |-> None, to |-> None]

\* FilterDetails::extend_filter_indexed: the indexed-topic constraints of the details,
\* if any, become the topics of the filter that follow topic0
ExtendFilterIndexed(details, filter) ==
    IF details.indexed_filters = None THEN filter
    ELSE [filter EXCEPT !.topics = Unwrap(details.indexed_filters)]

\* a build_filter that treats every setup as an address
BuildFilterAddressOnly(topic_id, indexing_contract_setup, current_block, next_block) ==
    [FilterNew EXCEPT !.address = IF "address" \in DOMAIN indexing_contract_setup
                                  THEN Some(ParseAddress(indexing_contract_setup.address))
                                  ELSE Some(0),
                      !.topic0 = Some(ParseH256(topic_id)),
                      !.from = current_block, !.to = next_block]

BuildFilter(topic_id, indexing_contract_setup, current_block, next_block) ==
    CASE indexing_contract_setup.kind = "Address" ->
             [FilterNew EXCEPT !.address = Some(ParseAddress(indexing_contract_setup.address)),
                               !.topic0 = Some(ParseH256(topic_id)),
                               !.from = current_block, !.to = next_block]
      [] indexing_contract_setup.kind = "Filter" ->
             ExtendFilterIndexed(indexing_contract_setup,
                 [FilterNew EXCEPT !.topic0 = Some(ParseH256(topic_id)),
                                   !.from = current_block, !.to = next_block])
      [] indexing_contract_setup.kind = "Factory" ->
             [FilterNew EXCEPT !.address = Some(ParseAddress(indexing_contract_setup.address)),
                               !.topic0 = Some(ParseH256(topic_id)),
                               !.from = current_block, !.to = next_block]

\* IndexingContractSetup::Address, ::Filter and ::Factory
AddressSetups == {[kind |-> "Address", address |-> <<"0x", a>>] : a \in {10, 11}}
FilterSetups ==
    {[kind |-> "Filter", event_name |-> "event", indexed_filters |-> i] :
        i \in {None, Some(<<{7}>>), Some(<<{7, 8}, {9}>>)}}
FactorySetups ==
    {[kind |-> "Factory", address |-> <<"0x", 12>>, event_name |-> "created",
      parameter_name |-> "child"]}

\* ------------------------------------------------------------------ Init
\* a process_logs task that has not been started, for the filter of its window
NewTask(filter) ==
    [pc |-> "unspawned", filter |-> filter, cursor |-> filter.from,
     tailing |-> FALSE, req |-> [from |-> filter.from, to |-> filter.to],
     handed |-> << >>]

NoConfig ==
    [planned |-> FALSE, start_block |-> 0, end_block |-> 0, live_indexing |-> FALSE,
     indexing_distance_from_head |-> 0, latest_block |-> 0,
     last_known_start_block |-> None]

\* the results of a query of the progress store
StoreResults == IF store = "flaky" THEN {"ok", "error"} ELSE {"ok"}

\* what every run starts from, whatever the registry holds
InitRun ==
    /\ head0 = head
    /\ sup = [pc |-> "plan", i |-> 1]
    /\ config = [u \in Units |-> NoConfig]
    /\ unit = [u \in Units |-> [pc |-> "unplanned", next |-> 1]]
    /\ task = [u \in Units |-> << >>]
    /\ permits = settings.max_concurrency
    /\ detached = 0
    /\ writes = {}

\* the chains of the runs: the event was emitted in the first two blocks of the span,
\* or in its last block and the block after it
ChainLogs ==
    {{HardCodedStartBlock, HardCodedStartBlock + 1},
     {HardCodedStartBlock + MaxSpan, HardCodedStartBlock + MaxSpan + 1}}

\* the registries of Spec: contracts without reorg margin, a fresh progress table or
\* one left by an earlier run
Contracts ==
    [start_block : {None},
     end_block : {None, Some(HardCodedStartBlock + MaxSpan)},
     reorg_safe_distance : {FALSE},
     chain_id : {UnknownChainId},
     indexing_contract_setup : {[kind |-> "Address", address |-> <<"0x", 10>>]}]

Init ==
    /\ settings \in [max_concurrency : 1..MaxConcurrency,
                     execute_in_event_order : BOOLEAN,
                     execute_event_logs_in_order : BOOLEAN]
    /\ max_block_range \in 1..MaxBlockRange
    /\ contract \in [Units -> Contracts]
    /\ Cardinality({u \in Units : contract[u].end_block = None}) <= MaxLiveUnits
    /\ head \in HardCodedStartBlock..(HardCodedStartBlock + MaxSpan)
    /\ chain_logs \in ChainLogs
    /\ store = "up"
    /\ \E stored \in {0, HardCodedStartBlock + MaxSpan} :
           db = [r \in Rows |-> IF r \in {WriteRow(u) : u \in Units}
                                THEN Some(stored) ELSE None]
    /\ InitRun

\* --------------------------------------------------------- start_indexing
\* let start_block = U64::from("0x035b0fa7"): the value read from the progress store,
\* contract.start_block and latest_block are not used
StartBlock(last_known_start_block, c, latest_block) == HardCodedStartBlock

\* min(contract.end_block.unwrap_or(latest_block), latest_block)
HistoricalEnd(c, latest_block) ==
    Min(UnwrapOr(c.end_block, latest_block), latest_block)

\* the end block had the reorg_safe_distance branch been left out
ReorgSafeEndNoClamp(c, latest_block) == HistoricalEnd(c, latest_block)

\* the end block after the reorg_safe_distance branch (lines 119-127)
ReorgSafeEnd(c, latest_block) ==
    LET end_block == HistoricalEnd(c, latest_block)
        safe_block_number == latest_block - ReorgSafeDistanceForChain(c.chain_id)
    IN  IF c.reorg_safe_distance /\ end_block > safe_block_number
        THEN safe_block_number ELSE end_block

\* indexing_distance_from_head after the reorg_safe_distance branch
DistanceFromHead(c) ==
    IF c.reorg_safe_distance THEN ReorgSafeDistanceForChain(c.chain_id) ELSE 0

\* get_last_synced_block_number: the row of the SELECT, or None when query_one fails
\* (row is "error", or the table holds no such row)
GetLastSyncedBlockNumber(u, row) ==
    IF row = "error" THEN None ELSE db[ReadRow(u)]

\* one pass of the loop over registry.events x contract.details, for unit sup.i
PlanUnit ==
    /\ sup.pc = "plan"
    /\ \E row \in StoreResults :
       LET u == sup.i
           c == contract[u]
           latest_block == head
           live_indexing == c.end_block = None
           last_known_start_block == GetLastSyncedBlockNumber(u, row)
           start_block == StartBlock(last_known_start_block, c, latest_block)
           \* U64 subtraction panics when the result would be negative
           underflow == /\ c.reorg_safe_distance
                        /\ latest_block < ReorgSafeDistanceForChain(c.chain_id)
           end_block == ReorgSafeEnd(c, latest_block)
           indexing_distance_from_head == DistanceFromHead(c)
           n == NumWindows(start_block, end_block, max_block_range)
       IN  IF underflow
           THEN /\ sup' = [sup EXCEPT !.pc = "panicked"]
                /\ UNCHANGED <<config, unit, task>>
           ELSE /\ config' = [config EXCEPT ![u] =
                       [planned |-> TRUE, start_block |-> start_block,
                        end_block |-> end_block, live_indexing |-> live_indexing,
                        indexing_distance_from_head |-> indexing_distance_from_head,
                        latest_block |-> latest_block,
                        last_known_start_block |-> last_known_start_block]]
                /\ task' = [task EXCEPT ![u] =
                       [k \in 1..n |->
                           LET window == WindowAt(start_block, end_block, max_block_range, k)
                           IN  NewTask(BuildFilter(TopicId(u), c.indexing_contract_setup,
                                                   window.from, window.to))]]
                /\ IF settings.execute_in_event_order
                   THEN /\ unit' = [unit EXCEPT ![u].pc = "loop"]
                        /\ sup' = [sup EXCEPT !.pc = "seq"]
                   ELSE /\ unit' = [unit EXCEPT ![u].pc = IF n = 0 THEN "join" ELSE "loop"]
                        /\ sup' = IF u = NumUnits
                                  THEN [pc |-> "join", i |-> 1]
                                  ELSE [sup EXCEPT !.i = u + 1]
    /\ UNCHANGED <<settings, max_block_range, contract, head, head0, chain_logs, store, db, permits,
                   detached, writes>>


\* a join loop that does not wait for the task
FinishedNoAwait(u) == TRUE

\* handle.await: the task of the handle has finished
Finished(u) == unit[u].pc \in {"ok", "err"}

\* the join loop of start_indexing: handle.await?? on the task of unit sup.i
JoinUnit ==
    /\ sup.pc = "join"
    /\ Finished(sup.i)
    /\ sup' = IF unit[sup.i].pc = "err" THEN [sup EXCEPT !.pc = "returned_err"]
              ELSE IF sup.i = NumUnits THEN [sup EXCEPT !.pc = "returned_ok"]
              ELSE [sup EXCEPT !.i = sup.i + 1]
    /\ UNCHANGED <<settings, max_block_range, contract, head, head0, chain_logs, store, db, config, unit,
                   task, permits, detached, writes>>

\* an acquire that takes a permit without waiting for one
AcquireOwnedNoWait == permits' = permits - 1

\* semaphore.acquire_owned().await: waits for a permit and takes it
AcquireOwned ==
    /\ permits > 0
    /\ permits' = permits - 1

\* ----------------------------------------------- process_event_sequentially
\* one pass of the window loop: build_filter, acquire_owned, call process_logs
SequentialWindow(u) ==
    /\ settings.execute_in_event_order
    /\ unit[u].pc = "loop"
    /\ unit[u].next <= Len(task[u])
    /\ unit[u].next > 1 => task[u][unit[u].next - 1].pc = "ended_ok"
    /\ AcquireOwned
    /\ task' = [task EXCEPT ![u][unit[u].next].pc = "fetching"]
    /\ unit' = [unit EXCEPT ![u].next = unit[u].next + 1]
    /\ UNCHANGED <<settings, max_block_range, contract, head, head0, chain_logs, store, db, sup, config,
                   detached, writes>>

\* process_event_sequentially returns into start_indexing (line 148): Err of the
\* window just processed through the two `?`, Ok(()) after the last window
SequentialReturn(u) ==
    /\ settings.execute_in_event_order
    /\ sup.pc = "seq"
    /\ sup.i = u
    /\ unit[u].pc = "loop"
    /\ LET last == unit[u].next - 1
           failed == last >= 1 /\ task[u][last].pc = "ended_err"
           finished == /\ unit[u].next > Len(task[u])
                       /\ last >= 1 => task[u][last].pc = "ended_ok"
       IN  /\ failed \/ finished
           /\ unit' = [unit EXCEPT ![u].pc = IF failed THEN "err" ELSE "ok"]
           /\ sup' = IF failed THEN [sup EXCEPT !.pc = "returned_err"]
                     ELSE IF u = NumUnits THEN [sup EXCEPT !.pc = "returned_ok"]
                     ELSE [pc |-> "plan", i |-> u + 1]
    /\ UNCHANGED <<settings, max_block_range, contract, head, head0, chain_logs, store, db, config, task,
                   permits, detached, writes>>

\* ----------------------------------------------- process_event_concurrently
\* one pass of the window loop: build_filter, acquire_owned, tokio::spawn
ConcurrentWindow(u) ==
    /\ ~settings.execute_in_event_order
    /\ unit[u].pc = "loop"
    /\ unit[u].next <= Len(task[u])
    /\ AcquireOwned
    /\ task' = [task EXCEPT ![u][unit[u].next].pc = "spawned"]
    /\ unit' = [unit EXCEPT ![u] =
                   [pc |-> IF unit[u].next = Len(task[u]) THEN "join" ELSE "loop",
                    next |-> unit[u].next + 1]]
    /\ UNCHANGED <<settings, max_block_range, contract, head, head0, chain_logs, store, db, sup, config,
                   detached, writes>>

\* the task spawned for window w is polled for the first time: process_logs builds the
\* stream and its first next() asks the provider for the range of the filter
ProcessLogsStart(u, w) ==
    /\ w \in DOMAIN task[u]
    /\ task[u][w].pc = "spawned"
    /\ task' = [task EXCEPT ![u][w].pc = "fetching"]
    /\ UNCHANGED <<settings, max_block_range, contract, head, head0, chain_logs, store, db, sup, config,
                   unit, permits, detached, writes>>

\* the join loop: handle.await? drops the Result of every window task, then Ok(())
ConcurrentReturn(u) ==
    /\ ~settings.execute_in_event_order
    /\ unit[u].pc = "join"
    /\ \A w \in DOMAIN task[u] : task[u][w].pc \in {"ended_ok", "ended_err"}
    /\ unit' = [unit EXCEPT ![u].pc = "ok"]
    /\ UNCHANGED <<settings, max_block_range, contract, head, head0, chain_logs, store, db, sup, config,
                   task, permits, detached, writes>>


\* ------------------------------------------------------- fetch_logs_stream
\* The stream of a window asks the provider for the filter range as soon as
\* process_logs polls it (pc = "fetching": the get_logs request is outstanding); the
\* task of a concurrent window is polled some time after tokio::spawn (pc = "spawned").
\* Range-limit shrinking and transient retries happen inside the request and yield
\* nothing.

\* provider.get_logs for the blocks b..to_block: the logs of the event in block order
RECURSIVE GetLogs(_, _)
GetLogs(b, to_block) ==
    IF b > to_block THEN << >>
    ELSE (IF b \in chain_logs THEN <<b>> ELSE << >>) \o GetLogs(b + 1, to_block)

\* the FetchLogsStream the stream yields for the outstanding request of window w
FetchLogsStream(u, w) ==
    [logs |-> GetLogs(task[u][w].req.from, task[u][w].req.to),
     from_block |-> task[u][w].req.from,
     to_block |-> task[u][w].req.to]

\* the task after the stream yielded the range req and handle_logs_result returned
\* Ok(()): the cursor passes req.to; a stream without live details is exhausted, its
\* next() yields None and process_logs returns Ok(()); a live stream starts tailing
StreamAfterYield(t, live) ==
    [t EXCEPT !.cursor = t.req.to + 1,
              !.pc = IF live THEN "tailing" ELSE "ended_ok",
              !.tailing = live]

\* a tailing stream finds the safe head at or ahead of its cursor and asks for the gap
StreamTailFetch(u, w) ==
    /\ w \in DOMAIN task[u]
    /\ task[u][w].pc = "tailing"
    /\ LET safe_head == head - config[u].indexing_distance_from_head
       IN  /\ safe_head >= task[u][w].cursor
           /\ task' = [task EXCEPT ![u][w].pc = "fetching",
                          ![u][w].req = [from |-> task[u][w].cursor, to |-> safe_head]]
    /\ UNCHANGED <<settings, max_block_range, contract, head, head0, chain_logs, store, db, sup, config,
                   unit, permits, detached, writes>>

\* ------------------------------------------- update_progress_and_db (spawn)
\* the task spawned for result.to_block; the UPDATE is idempotent, so equal writes of
\* a unit are kept once
ProgressWriteOf(u, w) == [unit |-> u, to |-> FetchLogsStream(u, w).to_block]

\* a window task that keeps its permit when process_logs has returned
PermitsAfterYieldKept(u) == permits

\* the permits after process_logs of a window of unit u went through a yield:
\* drop(permit) follows the return of process_logs
PermitsAfterYield(u) == IF config[u].live_indexing THEN permits ELSE permits + 1

\* ------------------------------------ process_logs and handle_logs_result
\* fn_data: result.logs.iter().map(|log| EventResult::new(network_contract, log))
FnData(u, logs) == [i \in DOMAIN logs |-> [network_contract |-> u, log |-> logs[i]]]

\* the call registry.trigger_event(topic_id, fn_data) for the result of window w
TriggerEventCall(u, w) ==
    [topic_id |-> TopicId(u), fn_data |-> FnData(u, FetchLogsStream(u, w).logs)]

\* an error path on which the window keeps its permit
FetchErrorKeepsPermit(u, w) ==
    /\ task' = [task EXCEPT ![u][w].pc = "ended_err"]
    /\ UNCHANGED <<permits, detached, writes>>

\* Err(e): handle_logs_result returns Err, process_logs returns it through `?` and the
\* permit is dropped
FetchError(u, w) ==
    /\ task' = [task EXCEPT ![u][w].pc = "ended_err"]
    /\ permits' = permits + 1
    /\ UNCHANGED <<detached, writes>>

\* an in-order hand-over that spawns the progress write before it awaits the handler
TriggerEventAwaitedWritesFirst(u, w) ==
    /\ task' = [task EXCEPT ![u][w].pc = "dispatching",
                            ![u][w].handed = Append(@, TriggerEventCall(u, w))]
    /\ writes' = writes \cup {ProgressWriteOf(u, w)}
    /\ UNCHANGED <<permits, detached>>

\* Ok with logs, execute_events_logs_in_order: registry.trigger_event(..).await
TriggerEventAwaited(u, w) ==
    /\ task' = [task EXCEPT ![u][w].pc = "dispatching",
                            ![u][w].handed = Append(@, TriggerEventCall(u, w))]
    /\ UNCHANGED <<permits, detached, writes>>

\* a detached hand-over that passes on only the first log of the batch
TriggerEventDetachedFirstLog(u, w) ==
    /\ task' = [task EXCEPT ![u][w] =
                   StreamAfterYield(
                       [@ EXCEPT !.handed = Append(@,
                            [topic_id |-> TopicId(u),
                             fn_data |-> SubSeq(TriggerEventCall(u, w).fn_data, 1, 1)])],
                       config[u].live_indexing)]
    /\ detached' = detached + 1
    /\ writes' = writes \cup {ProgressWriteOf(u, w)}
    /\ permits' = PermitsAfterYield(u)

\* Ok with logs, not in order: tokio::spawn of trigger_event, update_progress_and_db,
\* Ok(())
TriggerEventDetached(u, w) ==
    /\ task' = [task EXCEPT ![u][w] =
                   StreamAfterYield([@ EXCEPT !.handed = Append(@, TriggerEventCall(u, w))],
                                    config[u].live_indexing)]
    /\ detached' = detached + 1
    /\ writes' = writes \cup {ProgressWriteOf(u, w)}
    /\ permits' = PermitsAfterYield(u)

\* an empty batch that is passed over without a progress write
EmptyBatchSkipsWrite(u, w) ==
    /\ task' = [task EXCEPT ![u][w] = StreamAfterYield(@, config[u].live_indexing)]
    /\ permits' = PermitsAfterYield(u)
    /\ UNCHANGED <<detached, writes>>

\* Ok without logs: fn_data.is_empty(), update_progress_and_db, Ok(())
EmptyBatch(u, w) ==
    /\ task' = [task EXCEPT ![u][w] = StreamAfterYield(@, config[u].live_indexing)]
    /\ writes' = writes \cup {ProgressWriteOf(u, w)}
    /\ permits' = PermitsAfterYield(u)
    /\ UNCHANGED detached

\* the stream yields for the get_logs request of window w and handle_logs_result runs
\* up to its first suspension: result is "ok" (the FetchLogsStream of the request) or
\* "error" (a provider error the stream surfaces)
HandleLogsResult(u, w, result) ==
    /\ w \in DOMAIN task[u]
    /\ task[u][w].pc = "fetching"
    /\ LET fn_data == FnData(u, FetchLogsStream(u, w).logs)
       IN  CASE result = "error" -> FetchError(u, w)
             [] result = "ok" /\ fn_data # << >> /\ settings.execute_event_logs_in_order ->
                  TriggerEventAwaited(u, w)
             [] result = "ok" /\ fn_data # << >> /\ ~settings.execute_event_logs_in_order ->
                  TriggerEventDetached(u, w)
             [] result = "ok" /\ fn_data = << >> -> EmptyBatch(u, w)
    /\ UNCHANGED <<settings, max_block_range, contract, head, head0, chain_logs, store, db, sup, config,
                   unit>>

\* the awaited trigger_event of window w returns: handle_logs_result goes on to
\* update_progress_and_db and returns Ok(())
AwaitedHandlerReturns(u, w) ==
    /\ w \in DOMAIN task[u]
    /\ task[u][w].pc = "dispatching"
    /\ task' = [task EXCEPT ![u][w] = StreamAfterYield(@, config[u].live_indexing)]
    /\ writes' = writes \cup {ProgressWriteOf(u, w)}
    /\ permits' = PermitsAfterYield(u)
    /\ UNCHANGED <<settings, max_block_range, contract, head, head0, chain_logs, store, db, sup, config,
                   unit, detached>>

\* the trigger_event of a detached task returns
DetachedHandlerReturns ==
    /\ detached > 0
    /\ detached' = detached - 1
    /\ UNCHANGED <<settings, max_block_range, contract, head, head0, chain_logs, store, db, sup, config,
                   unit, task, permits, writes>>

\* -------------------------------------------- update_progress_and_db (task)
\* the UPDATE without its `$1 > last_synced_block` condition
UnconditionalUpdate(stored, to_block) ==
    IF IsSome(stored) THEN Some(to_block) ELSE stored

\* UPDATE ... SET last_synced_block = $1 WHERE network = $2 AND $1 > last_synced_block
ConditionalUpdate(stored, to_block) ==
    IF IsSome(stored) /\ to_block > Unwrap(stored) THEN Some(to_block) ELSE stored

\* database.execute returns Ok: the UPDATE has run
ProgressWriteApplies(wr) ==
    /\ db' = [db EXCEPT ![WriteRow(wr.unit)] = ConditionalUpdate(@, wr.to)]
    /\ UNCHANGED <<sup, unit, task>>

\* a failed write that ends start_indexing with an error
ProgressWriteFailsAborts(wr) ==
    /\ db' = db
    /\ sup' = [sup EXCEPT !.pc = "returned_err"]
    /\ UNCHANGED <<unit, task>>

\* database.execute returns Err: unwrap() panics in the spawned task, which nobody
\* joins; the row is left as it is
ProgressWriteFails(wr) ==
    /\ db' = db
    /\ UNCHANGED <<sup, unit, task>>

\* the spawned task of update_progress_and_db runs its UPDATE
ProgressWrite(wr) ==
    /\ wr \in writes
    /\ \E result \in StoreResults :
           IF result = "ok" THEN ProgressWriteApplies(wr) ELSE ProgressWriteFails(wr)
    /\ writes' = writes \ {wr}
    /\ UNCHANGED <<settings, max_block_range, contract, head, head0, chain_logs, store, config,
                   permits, detached>>

\* ---------------------------------------------------------------- the chain
\* the network produces a block (the heads the planning loop sees are those of Init
\* and those reached while a sequential unit runs)
HeadAdvance ==
    /\ sup.pc # "plan"
    /\ head < head0 + MaxHeadAdvance
    /\ head' = head + 1
    /\ UNCHANGED <<settings, max_block_range, contract, head0, chain_logs, store, db, sup, config, unit,
                   task, permits, detached, writes>>

Next ==
    \/ PlanUnit
    \/ JoinUnit
    \/ \E u \in Units : SequentialWindow(u)
    \/ \E u \in Units : SequentialReturn(u)
    \/ \E u \in Units : ConcurrentWindow(u)
    \/ \E u \in Units : \E w \in DOMAIN task[u] : ProcessLogsStart(u, w)
    \/ \E u \in Units : ConcurrentReturn(u)
    \/ \E u \in Units : \E w \in DOMAIN task[u] : StreamTailFetch(u, w)
    \/ \E u \in Units : \E w \in DOMAIN task[u] : \E result \in {"ok", "error"} :
           HandleLogsResult(u, w, result)
    \/ \E u \in Units : \E w \in DOMAIN task[u] : AwaitedHandlerReturns(u, w)
    \/ DetachedHandlerReturns
    \/ \E wr \in writes : ProgressWrite(wr)
    \/ HeadAdvance

Spec == Init /\ [][Next]_vars

\* ------------------------------------------------------------ fair scheduling
\* a step of the program or of its collaborators: the runtime polls a ready task, the
\* semaphore hands out a free permit, the provider answers, a handler returns, the
\* store runs an UPDATE. The chain is not required to grow.
Progress ==
    \/ PlanUnit
    \/ JoinUnit
    \/ \E u \in Units : SequentialWindow(u)
    \/ \E u \in Units : SequentialReturn(u)
    \/ \E u \in Units : ConcurrentWindow(u)
    \/ \E u \in Units : \E w \in DOMAIN task[u] : ProcessLogsStart(u, w)
    \/ \E u \in Units : ConcurrentReturn(u)
    \/ \E u \in Units : \E w \in DOMAIN task[u] : StreamTailFetch(u, w)
    \/ \E u \in Units : \E w \in DOMAIN task[u] : \E result \in {"ok", "error"} :
           HandleLogsResult(u, w, result)
    \/ \E u \in Units : \E w \in DOMAIN task[u] : AwaitedHandlerReturns(u, w)
    \/ DetachedHandlerReturns
    \/ \E wr \in writes : ProgressWrite(wr)

\* the runs of SpecFair: a fresh progress table, the first unit has an end_block
InitFair ==
    /\ Init
    /\ contract[1].end_block # None
    /\ \A u \in Units : db[WriteRow(u)] = Some(0)

\* the program does not stop while one of these steps can be taken
SpecFair == InitFair /\ [][Next]_vars /\ WF_vars(Progress)

\* ------------------------------------------------- the registries of SpecPlan
\* The units are the events of one contract on one network, so they share the
\* contract's blocks, reorg flag and chain; one permit; sequential units with detached
\* handlers or concurrent units with awaited handlers.
PlanContracts ==
    [start_block : {None, Some(HardCodedStartBlock + 1)},
     end_block : {None, Some(HardCodedStartBlock), Some(HardCodedStartBlock + MaxSpan)},
     reorg_safe_distance : BOOLEAN,
     chain_id : {MainnetChainId, UnknownChainId},
     indexing_contract_setup : {[kind |-> "Address", address |-> <<"0x", 10>>]}]

InitPlan ==
    /\ settings \in [max_concurrency : {1},
                     execute_in_event_order : BOOLEAN,
                     execute_event_logs_in_order : BOOLEAN]
    /\ settings.execute_in_event_order # settings.execute_event_logs_in_order
    /\ max_block_range \in 1..MaxBlockRange
    /\ \E c \in PlanContracts :
          /\ contract = [u \in Units |-> c]
          /\ \E k \in 0..(MaxSpan + 1) :
                head = (HardCodedStartBlock - 1) + DistanceFromHead(c) + k
    /\ chain_logs = {HardCodedStartBlock, HardCodedStartBlock + 1}
    /\ store = "up"
    /\ \E last \in {None, Some(HardCodedStartBlock + 1)} :
          db = [r \in Rows |-> IF last = None /\ r \in {WriteRow(u) : u \in Units}
                               THEN Some(0) ELSE last]
    /\ InitRun

SpecPlan == InitPlan /\ [][Next]_vars

\* ------------------------------------------------ the registries of SpecFilter
\* contracts of every indexing mode, the head at the end of the span, one permit
FilterContracts ==
    [start_block : {None},
     end_block : {None, Some(HardCodedStartBlock + MaxSpan)},
     reorg_safe_distance : {FALSE},
     chain_id : {UnknownChainId},
     indexing_contract_setup : AddressSetups \cup FilterSetups \cup FactorySetups]

InitFilter ==
    /\ settings \in [max_concurrency : {1},
                     execute_in_event_order : BOOLEAN,
                     execute_event_logs_in_order : BOOLEAN]
    /\ settings.execute_in_event_order # settings.execute_event_logs_in_order
    /\ max_block_range \in 1..MaxBlockRange
    /\ contract \in [Units -> FilterContracts]
    /\ Cardinality({u \in Units : contract[u].end_block = None}) <= MaxLiveUnits
    /\ head = HardCodedStartBlock + MaxSpan
    /\ chain_logs = {HardCodedStartBlock, HardCodedStartBlock + 1}
    /\ store = "up"
    /\ db = [r \in Rows |-> IF r \in {WriteRow(u) : u \in Units} THEN Some(0) ELSE None]
    /\ InitRun

SpecFilter == InitFilter /\ [][Next]_vars

\* ------------------------------------------------- the registries of SpecStore
\* The registries of Spec on one chain with the head at the end of the span,
\* sequential units with detached handlers or concurrent units with awaited handlers,
\* and a progress store whose queries may fail: the table of the SELECT holds a row of
\* an earlier run, the table of the UPDATE is fresh.
InitStore ==
    /\ settings \in [max_concurrency : 1..MaxConcurrency,
                     execute_in_event_order : BOOLEAN,
                     execute_event_logs_in_order : BOOLEAN]
    /\ settings.execute_in_event_order # settings.execute_event_logs_in_order
    /\ max_block_range \in 1..MaxBlockRange
    /\ contract \in [Units -> Contracts]
    /\ Cardinality({u \in Units : contract[u].end_block = None}) <= MaxLiveUnits
    /\ head = HardCodedStartBlock + MaxSpan
    /\ chain_logs = {HardCodedStartBlock + MaxSpan, HardCodedStartBlock + MaxSpan + 1}
    /\ store = "flaky"
    /\ db = [r \in Rows |-> IF r \in {WriteRow(u) : u \in Units}
                            THEN Some(0) ELSE Some(HardCodedStartBlock + 1)]
    /\ InitRun

SpecStore == InitStore /\ [][Next]_vars


\* ------------------------------------------------- the registries of SpecReorg
\* The units are the events of one reorg-safe contract, on mainnet or on a chain the
\* reorg policy does not know; the chain is a young one whose latest block lies below
\* the mainnet safe distance, or one whose head has passed the start block by the
\* margin; one permit; sequential units with detached handlers or concurrent units
\* with awaited handlers.
ReorgContracts ==
    [start_block : {None},
     end_block : {None, Some(HardCodedStartBlock + MaxSpan)},
     reorg_safe_distance : {TRUE},
     chain_id : {MainnetChainId, UnknownChainId},
     indexing_contract_setup : {[kind |-> "Address", address |-> <<"0x", 10>>]}]

InitReorg ==
    /\ settings \in [max_concurrency : {1},
                     execute_in_event_order : BOOLEAN,
                     execute_event_logs_in_order : BOOLEAN]
    /\ settings.execute_in_event_order # settings.execute_event_logs_in_order
    /\ max_block_range \in 1..MaxBlockRange
    /\ \E c \in ReorgContracts :
          /\ contract = [u \in Units |-> c]
          /\ \/ head = MainnetSafeDistance - 1
             \/ \E k \in 0..(MaxSpan + 1) :
                   head = (HardCodedStartBlock - 1) + DistanceFromHead(c) + k
    /\ chain_logs = {HardCodedStartBlock, HardCodedStartBlock + 1}
    /\ store = "up"
    /\ db = [r \in Rows |-> IF r \in {WriteRow(u) : u \in Units} THEN Some(0) ELSE None]
    /\ InitRun

SpecReorg == InitReorg /\ [][Next]_vars

\* ------------------------------------------------------------------ claims
Tasks == {tw \in Units \X (1..(MaxSpan + MaxHeadAdvance)) : tw[2] \in DOMAIN task[tw[1]]}

\* get_logs requests the provider has not answered
OutstandingGetLogs == Cardinality({tw \in Tasks : task[tw[1]][tw[2]].pc = "fetching"})

\* trigger_event calls a window task is awaiting
OutstandingAwaited == Cardinality({tw \in Tasks : task[tw[1]][tw[2]].pc = "dispatching"})

\* C1 as stated: outstanding get_logs requests plus outstanding trigger_event calls,
\* awaited or running in detached tasks, never exceed max_concurrency.
C1_BoundInBothModes ==
    OutstandingGetLogs + OutstandingAwaited + detached <= settings.max_concurrency

\* C1 amended: outstanding get_logs requests plus awaited trigger_event calls never
\* exceed max_concurrency, and each of them holds one of the permits taken; the
\* trigger_event calls of detached tasks hold none.
C1_BoundOnPermitHolders ==
    /\ OutstandingGetLogs + OutstandingAwaited <= settings.max_concurrency
    /\ OutstandingGetLogs + OutstandingAwaited <= settings.max_concurrency - permits
    /\ permits >= 0

\* the bound is reached, a window waits for a permit, detached handlers are running
C1_Witness ==
    /\ ~settings.execute_event_logs_in_order
    /\ settings.max_concurrency = MaxConcurrency
    /\ OutstandingGetLogs = settings.max_concurrency
    /\ detached > 0
    /\ \E u \in Units : unit[u].pc = "loop" /\ unit[u].next <= Len(task[u])

\* C2: the last_synced_block of the row of every unit never decreases, and a progress
\* write whose block is not greater than the stored one leaves the row as it is.
C2_MonotonicProgress ==
    [][\A u \in Units :
          /\ IsSome(db[WriteRow(u)]) =>
                /\ IsSome(db'[WriteRow(u)])
                /\ Unwrap(db'[WriteRow(u)]) >= Unwrap(db[WriteRow(u)])
          /\ \A wr \in writes \ writes' :
                (wr.unit = u /\ IsSome(db[WriteRow(u)]) /\ wr.to <= Unwrap(db[WriteRow(u)]))
                    => db'[WriteRow(u)] = db[WriteRow(u)]]_vars

\* the write of a window that ends below the stored block has run and the row still
\* holds the stored block
C2_Witness ==
    \E u \in Units :
        /\ head < HardCodedStartBlock + MaxSpan
        /\ db[WriteRow(u)] = Some(HardCodedStartBlock + MaxSpan)
        /\ task[u] # << >>
        /\ task[u][1].pc = "ended_ok"
        /\ task[u][1].req.to < HardCodedStartBlock + MaxSpan
        /\ writes = {}


\* C7 as stated: with execute_event_logs_in_order, a unit has at most one handler
\* running, and the handler of a window runs only when no earlier window of the unit
\* still waits for its logs.
C7_InOrderDispatch ==
    settings.execute_event_logs_in_order =>
        \A u \in Units :
            /\ Cardinality({w \in DOMAIN task[u] : task[u][w].pc = "dispatching"}) <= 1
            /\ \A w1, w2 \in DOMAIN task[u] :
                  (w1 < w2 /\ task[u][w2].pc = "dispatching" /\ ~task[u][w2].tailing)
                      => ~(task[u][w1].pc \in {"unspawned", "fetching"}
                           /\ ~task[u][w1].tailing)

\* every window of unit v has been fetched and handled, and the unit has returned
UnitCompleted(v) ==
    /\ unit[v].pc = "ok"
    /\ \A w \in DOMAIN task[v] : task[v][w].pc = "ended_ok"

C9_ProgressAfterHandOver ==
    [][/\ \A wr \in writes' \ writes :
             \E u \in Units : \E w \in DOMAIN task[u] :
                 /\ wr = ProgressWriteOf(u, w)
                 /\ task'[u][w].pc \in {"tailing", "ended_ok"}
                 /\ IF settings.execute_event_logs_in_order
                    THEN /\ task[u][w].pc \in {"dispatching", "fetching"}
                         /\ detached' = detached
                    ELSE /\ task[u][w].pc = "fetching"
                         /\ detached' >= detached
       /\ \A u \in Units : \A w \in DOMAIN task[u] :
             /\ (task[u][w].pc = "fetching" /\ task'[u][w].pc = "dispatching")
                    => writes' = writes
             /\ (task[u][w].pc = "dispatching" /\ task'[u][w].pc # "dispatching")
                    => ProgressWriteOf(u, w) \in writes'
             /\ (task[u][w].pc = "fetching" /\ task'[u][w].pc \in {"tailing", "ended_ok"})
                    => ProgressWriteOf(u, w) \in writes']_vars

\* detached mode: the only batch handed over so far is still with its handler and the
\* progress write of its window has been spawned
C9_WitnessDetached ==
    /\ ~settings.execute_event_logs_in_order
    /\ detached = 1
    /\ \E u \in Units : \E w \in DOMAIN task[u] :
          /\ task[u][w].pc = "ended_ok"
          /\ ProgressWriteOf(u, w) \in writes
          /\ \A tw \in Tasks :
                tw # <<u, w>> => task[tw[1]][tw[2]].pc \in {"unspawned", "fetching"}

\* C10 as stated: at most one task of a unit is in the live-tailing phase.
C10_OneLiveTask ==
    \A u \in Units : Cardinality({w \in DOMAIN task[u] : task[u][w].tailing}) <= 1


\* C3 as stated: when the historical run of a unit with start <= end has completed, the
\* windows built for it cover every block of [start, end], each window starts where
\* the one before it ends, and none is empty.
C3_RangeCoverage ==
    \A u \in Units :
        (unit[u].pc = "ok" /\ config[u].start_block <= config[u].end_block) =>
            /\ \A b \in config[u].start_block..config[u].end_block :
                  \E w \in DOMAIN task[u] :
                      task[u][w].filter.from <= b /\ b <= task[u][w].filter.to
            /\ \A w \in DOMAIN task[u] :
                  /\ task[u][w].filter.from <= task[u][w].filter.to
                  /\ w > 1 => task[u][w].filter.from = task[u][w - 1].filter.to

\* C4: the end of a planned unit is min(end_block ?? latest, latest), clamped to
\* latest - safe_distance(chain_id) for a reorg-safe contract; no window and no
\* request of the unit reaches beyond the head less the margin; the margin handed to
\* the stream is the safe distance, and 0 for a contract that is not reorg-safe.
C4_ReorgSafeEnd ==
    \A u \in Units :
        config[u].planned =>
            LET c == contract[u]
                latest == config[u].latest_block
                safe == ReorgSafeDistanceForChain(c.chain_id)
                plain == IF c.end_block # None /\ Unwrap(c.end_block) < latest
                         THEN Unwrap(c.end_block) ELSE latest
            IN  /\ ~c.reorg_safe_distance =>
                      /\ config[u].end_block = plain
                      /\ config[u].indexing_distance_from_head = 0
                /\ c.reorg_safe_distance =>
                      /\ config[u].end_block = Min(plain, latest - safe)
                      /\ config[u].indexing_distance_from_head = safe
                /\ \A w \in DOMAIN task[u] :
                      /\ task[u][w].filter.to
                            <= latest - config[u].indexing_distance_from_head
                      /\ task[u][w].pc = "fetching" =>
                            task[u][w].req.to
                                <= head - config[u].indexing_distance_from_head

\* a reorg-safe mainnet contract whose end_block lies above latest - 12: the request of
\* its last window ends at latest - 12
C4_WitnessClamped ==
    \E u \in Units :
        /\ config[u].planned
        /\ contract[u].reorg_safe_distance
        /\ contract[u].chain_id = MainnetChainId
        /\ HistoricalEnd(contract[u], config[u].latest_block)
               > config[u].latest_block - MainnetSafeDistance
        /\ task[u] # << >>
        /\ task[u][Len(task[u])].pc = "fetching"
        /\ task[u][Len(task[u])].req.to = config[u].latest_block - MainnetSafeDistance

\* C5 as stated: the start block of a planned unit is the block read from the progress
\* store, else contract.start_block, else the latest block.
C5_StartBlockResolution ==
    \A u \in Units :
        config[u].planned =>
            config[u].start_block =
                UnwrapOr(config[u].last_known_start_block,
                         UnwrapOr(contract[u].start_block, config[u].latest_block))

\* C6 as stated: when the store held L for a unit, its first window starts at L + 1 and
\* no request of the unit asks for a block at or below L.
C6_ResumeAfterLastSynced ==
    \A u \in Units :
        (config[u].planned /\ IsSome(config[u].last_known_start_block)) =>
            \A w \in DOMAIN task[u] :
                task[u][w].pc # "unspawned" =>
                    /\ task[u][w].req.from > Unwrap(config[u].last_known_start_block)
                    /\ w = 1 => task[u][w].filter.from
                                   = Unwrap(config[u].last_known_start_block) + 1

\* a window of unit u ended with a provider error
FetchFailed(u) == \E w \in DOMAIN task[u] : task[u][w].pc = "ended_err"

\* start_indexing has returned
Returned == sup.pc \in {"returned_ok", "returned_err"}

\* C11 as stated: a provider error in a window of one unit aborts only that unit; when
\* start_indexing has returned, every other unit has been planned and started (it was
\* not left behind without ever fetching a window).
C11_OtherUnitsContinue ==
    \A u, v \in Units :
        (u # v /\ FetchFailed(u) /\ Returned) =>
            /\ config[v].planned
            /\ unit[v].pc # "unplanned"

\* C12 as stated: start_indexing returns Ok only if no window of any unit ended with a
\* provider error.
C12_ResultIncludesFailure ==
    sup.pc = "returned_ok" => \A u \in Units : ~FetchFailed(u)

\* every unit of the registry has an end_block
AllHistorical == \A u \in Units : contract[u].end_block # None

\* C13: when every unit has an end_block, the provider answers every call and every
\* handler returns, start_indexing eventually returns (Ok or Err), for one permit and
\* for several.
C13_Termination == AllHistorical ~> Returned

\* two historical units of two windows each have run to the end on a single permit
C13_Witness ==
    /\ AllHistorical
    /\ settings.max_concurrency = 1
    /\ \A u \in Units : Len(task[u]) = 2 /\ UnitCompleted(u)
    /\ sup.pc = "returned_ok"

\* C14 as stated: a live unit (no end_block) whose fetches do not fail never returns,
\* whatever its resolved start and end are.
C14_LiveUnitKeepsTailing ==
    \A u \in Units :
        (contract[u].end_block = None /\ ~FetchFailed(u)) => unit[u].pc # "ok"

\* the window tasks that hold the permit they were started with
PermitHolders ==
    {tw \in Tasks : task[tw[1]][tw[2]].pc \in {"spawned", "fetching", "dispatching", "tailing"}}

C16_DispatchOncePerBatch ==
    [][\A u \in Units : \A w \in DOMAIN task[u] :
          LET t == task[u][w]
              t2 == task'[u][w]
              logs == GetLogs(t.req.from, t.req.to)
              handled == t.pc = "fetching" /\ t2.pc \notin {"fetching", "ended_err"}
          IN  /\ (handled /\ logs # << >>) =>
                    /\ t2.handed = Append(t.handed, [topic_id |-> TopicId(u),
                                                     fn_data |-> FnData(u, logs)])
                    /\ t2.pc # "dispatching" => ProgressWriteOf(u, w) \in writes'
              /\ (handled /\ logs = << >>) =>
                    /\ t2.handed = t.handed
                    /\ t2.pc # "dispatching"
                    /\ detached' = detached
                    /\ ProgressWriteOf(u, w) \in writes'
              /\ ~handled => t2.handed = t.handed
              /\ (t.pc = "dispatching" /\ t2.pc # "dispatching") =>
                    ProgressWriteOf(u, w) \in writes']_vars

\* a unit of two windows has completed on a fresh table: the first window held no log
\* and was not handed over, the second held one and was handed over once, and the
\* progress row holds the end of the second window
C16_Witness ==
    \E u \in Units :
        /\ Len(task[u]) = 2
        /\ UnitCompleted(u)
        /\ GetLogs(task[u][1].filter.from, task[u][1].filter.to) = << >>
        /\ task[u][1].handed = << >>
        /\ Len(task[u][2].handed) = 1
        /\ writes = {}
        /\ db[WriteRow(u)] = Some(task[u][2].filter.to)
        /\ head0 = HardCodedStartBlock + MaxSpan

\* C17 as stated: a get_logs request of a unit is issued only when every request the
\* unit issued before it started at a lower block.
C17_RequestsInBlockOrder ==
    [][\A u \in Units : \A w \in DOMAIN task[u] :
          (task[u][w].pc # "fetching" /\ task'[u][w].pc = "fetching") =>
              \A v \in DOMAIN task[u] :
                  task[u][v].pc \notin {"unspawned", "spawned"} =>
                      task[u][v].req.from < task'[u][w].req.from]_vars

RECURSIVE HandedLogs(_)
HandedLogs(calls) ==
    IF calls = << >> THEN << >>
    ELSE [i \in DOMAIN Head(calls).fn_data |-> Head(calls).fn_data[i].log]
             \o HandedLogs(Tail(calls))

\* the last block whose fetch result the task of window w has handled
HandledUpTo(u, w) ==
    LET t == task[u][w]
    IN  CASE t.pc \in {"unspawned", "spawned"} -> t.filter.from - 1
          [] t.pc \in {"fetching", "ended_err"} -> t.req.from - 1
          [] t.pc = "dispatching" -> t.req.to
          [] t.pc \in {"tailing", "ended_ok"} -> t.cursor - 1

\* C19: the batches handed to trigger_event depend on the fetch results alone, not on
\* execute_event_logs_in_order: every batch handed over carries the unit's topic and is
\* not empty, the batches of a window task hold, in block order, exactly the logs of
\* the results it has handled, and a window of a unit with an end_block is handed over
\* as one batch holding all the logs of its result, in the order of the result.
C19_SameBatches ==
    \A u \in Units : \A w \in DOMAIN task[u] :
        LET t == task[u][w]
            whole == [topic_id |-> TopicId(u),
                      fn_data |-> FnData(u, GetLogs(t.filter.from, t.filter.to))]
        IN  /\ \A i \in DOMAIN t.handed :
                  t.handed[i].topic_id = TopicId(u) /\ t.handed[i].fn_data # << >>
            /\ HandedLogs(t.handed) = GetLogs(t.filter.from, HandledUpTo(u, w))
            /\ contract[u].end_block # None =>
                  t.handed = IF t.pc \in {"dispatching", "ended_ok"} /\ whole.fn_data # << >>
                             THEN <<whole>> ELSE << >>

\* detached mode: a unit of two windows has completed, the first window was handed
\* over as a batch of two logs and the second as a batch of one
C19_Witness ==
    \E u \in Units :
        /\ ~settings.execute_event_logs_in_order
        /\ Len(task[u]) = 2
        /\ UnitCompleted(u)
        /\ Len(task[u][1].handed) = 1
        /\ Len(task[u][1].handed[1].fn_data) = 2
        /\ Len(task[u][2].handed) = 1
        /\ Len(task[u][2].handed[1].fn_data) = 1

\* C20: a unit is planned with the block the store returned or, when the read failed
\* or found no row, with None, and is started in either case; a progress write that
\* ends, applied or failed, changes nothing of start_indexing, of the units and of the
\* window tasks; only a fetch error makes a unit or start_indexing return an error; and
\* every result handled after that still spawns its progress write.
C20_StoreFailuresNotFatal ==
    /\ [](/\ sup.pc = "returned_err" => \E u \in Units : FetchFailed(u)
          /\ \A u \in Units : unit[u].pc = "err" => FetchFailed(u))
    /\ [][/\ \A u \in Units :
                (~config[u].planned /\ config'[u].planned) =>
                    /\ config'[u].last_known_start_block \in {None, db[ReadRow(u)]}
                    /\ config'[u].start_block
                          = StartBlock(config'[u].last_known_start_block, contract[u],
                                       config'[u].latest_block)
                    /\ unit'[u].pc \in {"loop", "join"}
                    /\ sup'.pc \in {"plan", "seq", "join"}
          /\ writes' # writes /\ writes' \subseteq writes =>
                /\ sup' = sup /\ unit' = unit /\ task' = task /\ permits' = permits
                /\ \E wr \in writes \ writes' :
                      \/ db' = db
                      \/ db' = [db EXCEPT ![WriteRow(wr.unit)] = ConditionalUpdate(@, wr.to)]
          /\ \A u \in Units : \A w \in DOMAIN task[u] :
                (task[u][w].pc \in {"fetching", "dispatching"}
                     /\ task'[u][w].pc \in {"tailing", "ended_ok"})
                    => ProgressWriteOf(u, w) \in writes']_vars

\* the read failed (the row is there), the write of the first window failed (the row
\* of the fresh table still holds 0), the second window has been fetched and handled
\* and its write is waiting
C20_Witness ==
    \E u \in Units :
        /\ config[u].planned
        /\ config[u].last_known_start_block = None
        /\ db[ReadRow(u)] # None
        /\ Len(task[u]) = 2
        /\ task[u][1].pc = "ended_ok"
        /\ task[u][2].pc = "ended_ok"
        /\ db[WriteRow(u)] = Some(0)
        /\ writes = {ProgressWriteOf(u, 2)}
        /\ ProgressWriteOf(u, 1) # ProgressWriteOf(u, 2)

\* C21 as stated: the row a progress write of a unit changes is the row
\* get_last_synced_block_number reads for that unit, so that the block a write has
\* stored is the block the next run reads.
C21_ReadsWhatWasWritten ==
    [][\A wr \in writes \ writes' :
          db'[WriteRow(wr.unit)] # db[WriteRow(wr.unit)] =>
              /\ ReadRow(wr.unit) = WriteRow(wr.unit)
              /\ db'[ReadRow(wr.unit)] = Some(wr.to)]_vars

\* C22 as stated: when start_indexing has returned Ok, every unit has an end_block,
\* the store answers every query and every window of every unit was fetched and
\* handled, no progress write is left to run and the row of each unit holds the unit's
\* end block.
C22_WritesAppliedOnReturn ==
    (/\ sup.pc = "returned_ok"
     /\ AllHistorical
     /\ store = "up"
     /\ \A u \in Units : UnitCompleted(u) /\ task[u] # << >>) =>
        /\ writes = {}
        /\ \A u \in Units : db[WriteRow(u)] = Some(config[u].end_block)

\* C23 as stated: when the provider answers, the handlers return and no fetch fails,
\* every unit that was planned with a window eventually takes a permit and issues the
\* request of its first window, also next to a live unit.
C23_EveryUnitFetches ==
    \A u \in Units :
        (config[u].planned /\ task[u] # << >>) ~>
            (\/ task[u] # << >> /\ task[u][1].pc \notin {"unspawned", "spawned"}
             \/ \E v \in Units : FetchFailed(v))

\* C24 as stated: planning never aborts on the subtraction latest_block -
\* safe_distance(chain_id): a reorg-safe contract on a chain whose latest block is below
\* the safe distance is planned with an end block >= 0.
C24_NoUnderflow ==
    /\ sup.pc # "panicked"
    /\ \A u \in Units : config[u].planned => config[u].end_block >= 0

====
